---- MODULE Spec2Model ----
(***************************************************************************)
(* Boost Ball Arena backend (src/backend/server.py): the players,          *)
(* customizations and matches collections and the request handlers that    *)
(* read and write them.  Every handler is cut at its awaits: each database *)
(* call (find_one, insert_one, update_one) is one atomic step, and steps   *)
(* of different requests interleave freely.                                *)
(***************************************************************************)
EXTENDS Integers, Sequences, FiniteSets, TLC

----------------------------------------------------------------------------
(* Bounds of the model *)

\* Most player documents the players collection may hold.
MaxPlayers == 2
\* Most match documents the matches collection may hold.
MaxMatches == 2
\* Most customization documents the customizations collection may hold.
MaxCustoms == 2
\* Requests that may be in flight at once.
MaxRequests == 2
\* Most updated_at values update_customization may write.
MaxStamps == 1
\* Most writes update_player may make.
MaxPatches == 1
\* Most documents the three collections may hold together, where every
\* handler runs.
MaxDocuments == 3
\* Most players stored where only get_leaderboard runs.
MaxListed == 3

Requests == 1..MaxRequests

\* The player_id values a caller passes to the customization handlers, which
\* never look the player up: any string will do.
PlayerIds == {1, 2}

----------------------------------------------------------------------------
(* Inputs *)

\* PlayerCreate bodies.
PlayerCreates ==
    { [username |-> "ann", email |-> "a@x"],
      [username |-> "bob", email |-> "b@x"] }

\* MatchResultCreate bodies, player_id left out (it is drawn from KnownIds).
MatchOutcomes ==
    { [match_type |-> "1v1", result |-> "win",  player_goals |-> 3,
       opponent_goals |-> 1, duration |-> 300, xp_earned |-> 350, coins_earned |-> 25],
      [match_type |-> "1v1", result |-> "loss", player_goals |-> 1,
       opponent_goals |-> 2, duration |-> 300, xp_earned |-> 50,  coins_earned |-> 10] }

\* The fields of PlayerUpdate.  An Optional value is a sequence of length at
\* most one: << >> is None, <<v>> is v.
PlayerUpdateFields ==
    {"avatar", "level", "xp", "coins", "diamonds", "rank", "wins", "losses", "goals"}

NoPlayerUpdate == [f \in PlayerUpdateFields |-> << >>]

\* PlayerUpdate bodies.
PlayerUpdates ==
    { NoPlayerUpdate,
      [NoPlayerUpdate EXCEPT !.wins = <<4>>, !.rank = <<"Gold">>],
      [NoPlayerUpdate EXCEPT !.wins = <<49>>],
      [NoPlayerUpdate EXCEPT !.rank = <<"Gold">>],
      [NoPlayerUpdate EXCEPT !.level = <<0>>, !.xp = <<500>>] }

\* CarCustomizationCreate bodies, player_id left out: the defaults, and a
\* body that chooses some fields.
CustomizationCreates ==
    { [car_model |-> "default", body_color |-> "#3B82F6", decal |-> "none",
       wheels |-> "default", boost_effect |-> "blue", goal_explosion |-> "default"],
      [car_model |-> "octane", body_color |-> "#FF0000", decal |-> "none",
       wheels |-> "default", boost_effect |-> "blue", goal_explosion |-> "default"] }

\* The fields of CarCustomizationUpdate.
CustomizationUpdateFields ==
    {"car_model", "body_color", "decal", "wheels", "boost_effect", "goal_explosion"}

NoCustomizationUpdate == [f \in CustomizationUpdateFields |-> << >>]

\* CarCustomizationUpdate bodies.
CustomizationUpdates ==
    { NoCustomizationUpdate,
      [NoCustomizationUpdate EXCEPT !.car_model = <<"dominus">>],
      [NoCustomizationUpdate EXCEPT !.decal = <<"flames">>, !.wheels = <<"spiked">>] }

\* The limit parameter's default (limit: int = 10).
DefaultLimit == 10

\* limit values of get_player_matches and get_leaderboard.
Limits == {1, 2, 3, DefaultLimit}

\* email values of get_player_by_email.
Emails == {data.email : data \in PlayerCreates}

----------------------------------------------------------------------------
(* State *)

VARIABLES
    players,         \* db.players: documents in insertion order
    customizations,  \* db.customizations: documents in insertion order
    matches,         \* db.matches: documents in insertion order
    stamps,          \* updated_at values written so far (the customizations' clock)
    patches,         \* writes made so far by update_player
    req,             \* per request slot: handler, position, arguments, locals, response
    overlap          \* history: some request began while another was in flight

vars == <<players, customizations, matches, stamps, patches, req, overlap>>

\* A request slot that runs nothing.
IdleRequest == [op |-> "none", pc |-> "idle", arg |-> << >>, loc |-> << >>, resp |-> << >>]

InFlight(r) == req[r].pc \notin {"idle", "done"}

\* A request starts in the first slot that runs nothing (the slots are
\* interchangeable).
Free(r) == ~InFlight(r) /\ \A q \in 1..(r - 1) : InFlight(q)

\* The slots after a step that leaves request r with the given frame.  The
\* frame of a request that has ended shows its response in the state its last
\* step leads to, and is gone after the next step of any request.
Step(r, frame) ==
    [q \in Requests |->
        IF q = r THEN frame ELSE IF InFlight(q) THEN req[q] ELSE IdleRequest]

\* overlap after request r starts.
Overlap(r) == overlap \/ \E q \in Requests \ {r} : InFlight(q)

\* The handler returned (status 200) or raised (HTTPException status, or 500
\* for an uncaught exception).
Response(status, body) == [status |-> status, body |-> body]

Finished(op, arg, loc, resp) ==
    [op |-> op, pc |-> "done", arg |-> arg, loc |-> loc, resp |-> resp]

Running(op, pc, arg, loc) ==
    [op |-> op, pc |-> pc, arg |-> arg, loc |-> loc, resp |-> << >>]

----------------------------------------------------------------------------
(* The document store *)

\* datetime.isoformat() and datetime.fromisoformat(): a stored timestamp is
\* the ISO string of the instant, not the instant.
isoformat(t) == [iso |-> t]
fromisoformat(s) == s.iso

\* Index of the first document of coll whose field key is val, 0 if none.
FirstIndex(coll, key, val) ==
    LET hits == {i \in 1..Len(coll) : coll[i][key] = val}
    IN  IF hits = {} THEN 0 ELSE CHOOSE i \in hits : \A j \in hits : i <= j

\* find_one with a filter that matches nothing.
find_one_no_match(coll, key, val) == << >>

\* find_one(coll, {key: val}): << >> if absent, else <<document>>.
find_one(coll, key, val) ==
    LET i == FirstIndex(coll, key, val)
    IN  IF i = 0 THEN << >> ELSE <<coll[i]>>

\* dict.get(key, default)
get(doc, key, default) == IF key \in DOMAIN doc THEN doc[key] ELSE default

\* The update without "$set": the fields replace the document.
SetFieldsReplace(doc, fields) == fields

\* {"$set": fields} applied to one document.
SetFields(doc, fields) ==
    [f \in DOMAIN doc \cup DOMAIN fields |->
        IF f \in DOMAIN fields THEN fields[f] ELSE doc[f]]

\* update_one(coll, {key: val}, {"$set": fields}): the collection afterwards.
update_one(coll, key, val, fields) ==
    LET i == FirstIndex(coll, key, val)
    IN  IF i = 0 THEN coll ELSE [coll EXCEPT ![i] = SetFields(@, fields)]

\* matched_count of that update_one.
matched_count(coll, key, val) == IF FirstIndex(coll, key, val) = 0 THEN 0 ELSE 1

\* The value .sort(key, -1) compares: a stored timestamp is an ISO string, and
\* ISO strings of one timezone order as their instants do.
SortKey(doc, key) == IF key = "timestamp" THEN doc[key].iso ELSE doc[key]

\* The sort with direction 1: ascending.
SortAscending(coll, hits, key) ==
    {s \in [1..Cardinality(hits) -> hits] :
        /\ \A i, j \in DOMAIN s : s[i] = s[j] => i = j
        /\ \A i, j \in DOMAIN s :
            i < j => SortKey(coll[s[i]], key) <= SortKey(coll[s[j]], key)}

\* find(...).sort(key, -1): the orders the cursor may yield the documents with
\* the indices in hits, as sequences of indices.  Documents with equal keys
\* come in either order.
SortDescending(coll, hits, key) ==
    {s \in [1..Cardinality(hits) -> hits] :
        /\ \A i, j \in DOMAIN s : s[i] = s[j] => i = j
        /\ \A i, j \in DOMAIN s :
            i < j => SortKey(coll[s[i]], key) >= SortKey(coll[s[j]], key)}

\* .limit(limit).to_list(limit), for a positive limit: the first limit items.
ToList(s, limit) == SubSeq(s, 1, IF limit < Len(s) THEN limit ELSE Len(s))

\* The comprehension without its filter: every field is kept.
NonNullUnfiltered(updates) == [k \in DOMAIN updates |-> updates[k]]

\* {k: v for k, v in updates.model_dump().items() if v is not None}
NonNull(updates) ==
    LET keys == {k \in DOMAIN updates : updates[k] # << >>}
    IN  [k \in keys |-> updates[k][1]]

----------------------------------------------------------------------------
(* Players *)

\* Player with the coins default of 100 instead of 1000.
PlayerFewCoins(id, data, t) ==
    [id |-> id, username |-> data.username, email |-> data.email,
     avatar |-> "default", level |-> 1, xp |-> 0, coins |-> 100,
     diamonds |-> 50, rank |-> "Bronze", wins |-> 0, losses |-> 0,
     goals |-> 0, created_at |-> t]

\* Player(**player_data.model_dump()): the model's defaults.
Player(id, data, t) ==
    [id |-> id, username |-> data.username, email |-> data.email,
     avatar |-> "default", level |-> 1, xp |-> 0, coins |-> 1000,
     diamonds |-> 50, rank |-> "Bronze", wins |-> 0, losses |-> 0,
     goals |-> 0, created_at |-> t]

\* doc = player.model_dump(); doc['created_at'] = doc['created_at'].isoformat()
PlayerDoc(player) == [player EXCEPT !.created_at = isoformat(@)]

\* A document as a handler returns it: created_at parsed back.
PlayerOut(doc) == [doc EXCEPT !.created_at = fromisoformat(@)]

\* A player's id is a fresh uuid4 (Player.id's default_factory), which no
\* caller can name before create_player has inserted it: a caller names the
\* id of a stored player, or 0, an id that is never handed out.
KnownIds == {0} \cup {players[i].id : i \in 1..Len(players)}

\* Requests of handler op that are about to insert a document.
Inserting(op) == Cardinality({q \in Requests : req[q].op = op /\ req[q].pc = "insert"})

\* create_player, up to its first await: find_one by email, then the check.
create_player_find(r) ==
    \E data \in PlayerCreates :
        /\ Free(r)
        /\ \/ find_one(players, "email", data.email) # << >>
           \/ Len(players) + Inserting("create_player") < MaxPlayers
        /\ LET existing == find_one(players, "email", data.email)
           IN  req' = Step(r,
                   IF existing # << >>
                   THEN Finished("create_player", data, << >>,
                            Response(400, "Player with this email already exists"))
                   ELSE Running("create_player", "insert", data, << >>))
        /\ overlap' = Overlap(r)
        /\ UNCHANGED <<players, customizations, matches, stamps, patches>>

\* create_player, the rest: build the Player and insert its document.
create_player_insert(r) ==
    /\ req[r].op = "create_player" /\ req[r].pc = "insert"
    /\ LET player == Player(Len(players) + 1, req[r].arg, Len(players) + 1)
       IN  /\ players' = Append(players, PlayerDoc(player))
           /\ req' = Step(r,
                   Finished("create_player", req[r].arg, << >>, Response(200, player)))
    /\ UNCHANGED <<customizations, matches, stamps, patches, overlap>>

\* update_player, up to its second await: the non-null fields, the check
\* that there are some, update_one by id, the check that it matched.
update_player_update(r) ==
    \E player_id \in KnownIds, updates \in PlayerUpdates :
        /\ Free(r)
        /\ \/ DOMAIN NonNull(updates) = {}
           \/ matched_count(players, "id", player_id) = 0
           \/ patches < MaxPatches
        /\ LET arg == [player_id |-> player_id, updates |-> updates]
               update_data == NonNull(updates)
               matched == matched_count(players, "id", player_id)
           IN  IF DOMAIN update_data = {}
               THEN /\ req' = Step(r,
                            Finished("update_player", arg, << >>,
                                Response(400, "No valid fields to update")))
                    /\ UNCHANGED <<players, patches>>
               ELSE /\ players' = update_one(players, "id", player_id, update_data)
                    /\ patches' = patches + matched
                    /\ req' = Step(r,
                            IF matched = 0
                            THEN Finished("update_player", arg, << >>,
                                     Response(404, "Player not found"))
                            ELSE Running("update_player", "find", arg, << >>))
        /\ overlap' = Overlap(r)
        /\ UNCHANGED <<customizations, matches, stamps>>

\* update_player, the rest: find_one by id; the document found is returned.
update_player_find(r) ==
    /\ req[r].op = "update_player" /\ req[r].pc = "find"
    /\ LET updated_player == find_one(players, "id", req[r].arg.player_id)
       IN  req' = Step(r,
               Finished("update_player", req[r].arg, << >>,
                   Response(200, PlayerOut(updated_player[1]))))
    /\ UNCHANGED <<players, customizations, matches, stamps, patches, overlap>>

\* get_player: find_one by id; 404 if absent, else the document is returned.
get_player(r) ==
    \E player_id \in KnownIds :
        /\ Free(r)
        /\ LET arg == [player_id |-> player_id]
               player == find_one(players, "id", player_id)
           IN  req' = Step(r,
                   IF player = << >>
                   THEN Finished("get_player", arg, << >>,
                            Response(404, "Player not found"))
                   ELSE Finished("get_player", arg, << >>,
                            Response(200, PlayerOut(player[1]))))
        /\ overlap' = Overlap(r)
        /\ UNCHANGED <<players, customizations, matches, stamps, patches>>

\* get_player_by_email: find_one by email; 404 if absent, else the document
\* is returned.
get_player_by_email(r) ==
    \E email \in Emails :
        /\ Free(r)
        /\ LET arg == [email |-> email]
               player == find_one(players, "email", email)
           IN  req' = Step(r,
                   IF player = << >>
                   THEN Finished("get_player_by_email", arg, << >>,
                            Response(404, "Player not found"))
                   ELSE Finished("get_player_by_email", arg, << >>,
                            Response(200, PlayerOut(player[1]))))
        /\ overlap' = Overlap(r)
        /\ UNCHANGED <<players, customizations, matches, stamps, patches>>

\* The projection of get_leaderboard: {"_id": 0, "username": 1, "wins": 1,
\* "goals": 1, "rank": 1, "level": 1}.
LeaderboardEntry(doc) ==
    [username |-> doc.username, wins |-> doc.wins, goals |-> doc.goals,
     rank |-> doc.rank, level |-> doc.level]

\* get_leaderboard: every player, sorted by wins descending, the first limit
\* of them, projected.
get_leaderboard(r) ==
    \E limit \in Limits :
        \E order \in SortDescending(players, 1..Len(players), "wins") :
            /\ Free(r)
            /\ LET listed == ToList(order, limit)
               IN  req' = Step(r,
                       Finished("get_leaderboard", [limit |-> limit], << >>,
                           Response(200,
                               [i \in DOMAIN listed |->
                                   LeaderboardEntry(players[listed[i]])])))
            /\ overlap' = Overlap(r)
            /\ UNCHANGED <<players, customizations, matches, stamps, patches>>

----------------------------------------------------------------------------
(* Matches *)

\* MatchResult that records no xp_earned.
MatchResultNoXp(id, match_data, t) ==
    [id |-> id, player_id |-> match_data.player_id,
     match_type |-> match_data.match_type, result |-> match_data.result,
     player_goals |-> match_data.player_goals,
     opponent_goals |-> match_data.opponent_goals,
     duration |-> match_data.duration, xp_earned |-> 0,
     coins_earned |-> match_data.coins_earned, timestamp |-> t]

\* MatchResult(**match_data.model_dump())
MatchResult(id, match_data, t) ==
    [id |-> id, player_id |-> match_data.player_id,
     match_type |-> match_data.match_type, result |-> match_data.result,
     player_goals |-> match_data.player_goals,
     opponent_goals |-> match_data.opponent_goals,
     duration |-> match_data.duration, xp_earned |-> match_data.xp_earned,
     coins_earned |-> match_data.coins_earned, timestamp |-> t]

\* A match document filed under another player_id.
MatchDocMisfiled(match) ==
    [match EXCEPT !.timestamp = isoformat(@), !.player_id = @ + 1]

\* doc = match.model_dump(); doc['timestamp'] = doc['timestamp'].isoformat()
MatchDoc(match) == [match EXCEPT !.timestamp = isoformat(@)]

\* updates that forget the coins the player already has.
StatUpdatesDropCoins(player, match_data) ==
    [xp    |-> get(player, "xp", 0) + match_data.xp_earned,
     coins |-> match_data.coins_earned,
     goals |-> get(player, "goals", 0) + match_data.player_goals]

\* updates = {"xp": ..., "coins": ..., "goals": ...}
StatUpdates(player, match_data) ==
    [xp    |-> get(player, "xp", 0) + match_data.xp_earned,
     coins |-> get(player, "coins", 0) + match_data.coins_earned,
     goals |-> get(player, "goals", 0) + match_data.player_goals]

\* if match_data.result == "win": updates["wins"] = ... else: updates["losses"] = ...
WinLossUpdates(updates, player, match_data) ==
    IF match_data.result = "win"
    THEN updates @@ [wins |-> get(player, "wins", 0) + 1]
    ELSE updates @@ [losses |-> get(player, "losses", 0) + 1]

\* The loop condition: while new_xp >= new_level * 100
LevelContinues(new_xp, new_level) == new_xp >= new_level * 100

\* A loop body that leaves new_xp alone.
LevelStepKeepsXp(new_xp, new_level) == <<new_xp, new_level + 1>>

\* A loop body that does nothing while new_level is not positive.
LevelStepStuck(new_xp, new_level) ==
    IF new_level <= 0 THEN <<new_xp, new_level>>
    ELSE <<new_xp - new_level * 100, new_level + 1>>

\* The loop body: new_xp -= new_level * 100; new_level += 1
LevelStep(new_xp, new_level) == <<new_xp - new_level * 100, new_level + 1>>

\* while new_xp >= new_level * 100: new_xp -= new_level * 100; new_level += 1
\* The loop's final <<new_xp, new_level>>.
RECURSIVE LevelLoop(_, _)
LevelLoop(new_xp, new_level) ==
    IF LevelContinues(new_xp, new_level)
    THEN LET next == LevelStep(new_xp, new_level) IN LevelLoop(next[1], next[2])
    ELSE <<new_xp, new_level>>

\* The level-up logic: new_xp and new_level start from updates['xp'] and the
\* player's level; only updates['level'] is assigned after the loop.
LevelUpdates(updates, player) ==
    LET final == LevelLoop(updates.xp, get(player, "level", 1))
    IN  updates @@ [level |-> final[2]]

\* The rank progression reads updates['wins']: a KeyError when the key was
\* never set.
RankRaises(updates) == "wins" \notin DOMAIN updates

\* The rank progression: the if/elif chain has no else.
RankUpdates(updates) ==
    IF updates.wins >= 50 THEN updates @@ [rank |-> "Diamond"]
    ELSE IF updates.wins >= 30 THEN updates @@ [rank |-> "Platinum"]
    ELSE IF updates.wins >= 15 THEN updates @@ [rank |-> "Gold"]
    ELSE IF updates.wins >= 5 THEN updates @@ [rank |-> "Silver"]
    ELSE updates

\* The updates dict up to the rank progression.
BeforeRank(player, match_data) ==
    LevelUpdates(WinLossUpdates(StatUpdates(player, match_data), player, match_data),
                 player)

\* create_match_result, up to its second await: build the MatchResult and
\* insert its document.
create_match_result_insert(r) ==
    \E player_id \in KnownIds, outcome \in MatchOutcomes :
        /\ Free(r)
        /\ Len(matches) < MaxMatches
        /\ LET match_data == [player_id |-> player_id] @@ outcome
               match == MatchResult(Len(matches) + 1, match_data, Len(matches) + 1)
           IN  /\ matches' = Append(matches, MatchDoc(match))
               /\ req' = Step(r,
                       Running("create_match_result", "find", match_data,
                               [match |-> match]))
        /\ overlap' = Overlap(r)
        /\ UNCHANGED <<players, customizations, stamps, patches>>

\* create_match_result, up to its third await: find_one by id; without a
\* player the match is returned; with one the updates are computed, and the
\* rank progression may raise.
create_match_result_find(r) ==
    /\ req[r].op = "create_match_result" /\ req[r].pc = "find"
    /\ LET found == find_one(players, "id", req[r].arg.player_id)
           match == req[r].loc.match
       IN  req' = Step(r,
               IF found = << >>
               THEN Finished("create_match_result", req[r].arg, req[r].loc,
                        Response(200, match))
               ELSE LET player == found[1]
                        updates == BeforeRank(player, req[r].arg)
                        loc == [match |-> match, player |-> player]
                    IN  IF RankRaises(updates)
                        THEN Finished("create_match_result", req[r].arg, loc,
                                 Response(500, "KeyError: 'wins'"))
                        ELSE Running("create_match_result", "update", req[r].arg,
                                 loc @@ [updates |-> RankUpdates(updates)]))
    /\ UNCHANGED <<players, customizations, matches, stamps, patches, overlap>>

\* create_match_result, the rest: update_one by id with the updates.
create_match_result_update(r) ==
    /\ req[r].op = "create_match_result" /\ req[r].pc = "update"
    /\ players' = update_one(players, "id", req[r].arg.player_id, req[r].loc.updates)
    /\ req' = Step(r,
           Finished("create_match_result", req[r].arg, req[r].loc,
               Response(200, req[r].loc.match)))
    /\ UNCHANGED <<customizations, matches, stamps, patches, overlap>>

\* create_match_result with its level-up loop cut at every iteration.  From
\* its second await to the loop: find_one by id; without a player the match is
\* returned; with one, updates, the win or loss, new_xp and new_level.
create_match_result_player(r) ==
    /\ req[r].op = "create_match_result" /\ req[r].pc = "find"
    /\ LET found == find_one(players, "id", req[r].arg.player_id)
           match == req[r].loc.match
       IN  req' = Step(r,
               IF found = << >>
               THEN Finished("create_match_result", req[r].arg, req[r].loc,
                        Response(200, match))
               ELSE LET player == found[1]
                        updates == WinLossUpdates(StatUpdates(player, req[r].arg),
                                                  player, req[r].arg)
                    IN  Running("create_match_result", "level", req[r].arg,
                            [match |-> match, player |-> player, updates |-> updates,
                             new_xp |-> updates.xp,
                             new_level |-> get(player, "level", 1)]))
    /\ UNCHANGED <<players, customizations, matches, stamps, patches, overlap>>

\* One iteration of the loop.
create_match_result_level(r) ==
    /\ req[r].op = "create_match_result" /\ req[r].pc = "level"
    /\ LevelContinues(req[r].loc.new_xp, req[r].loc.new_level)
    /\ LET next == LevelStep(req[r].loc.new_xp, req[r].loc.new_level)
       IN  req' = Step(r,
               [req[r] EXCEPT !.loc.new_xp = next[1], !.loc.new_level = next[2]])
    /\ UNCHANGED <<players, customizations, matches, stamps, patches, overlap>>

\* The loop's exit, up to the third await: updates['level'] = new_level, then
\* the rank progression, which may raise.
create_match_result_rank(r) ==
    /\ req[r].op = "create_match_result" /\ req[r].pc = "level"
    /\ ~LevelContinues(req[r].loc.new_xp, req[r].loc.new_level)
    /\ LET updates == req[r].loc.updates @@ [level |-> req[r].loc.new_level]
           loc == [match |-> req[r].loc.match, player |-> req[r].loc.player]
       IN  req' = Step(r,
               IF RankRaises(updates)
               THEN Finished("create_match_result", req[r].arg, loc,
                        Response(500, "KeyError: 'wins'"))
               ELSE Running("create_match_result", "update", req[r].arg,
                        loc @@ [updates |-> RankUpdates(updates)]))
    /\ UNCHANGED <<players, customizations, matches, stamps, patches, overlap>>

\* A match document as get_player_matches returns it: timestamp parsed back.
MatchOut(doc) == [doc EXCEPT !.timestamp = fromisoformat(@)]

\* get_player_matches: the matches of player_id, sorted by timestamp
\* descending, the first limit of them.
get_player_matches(r) ==
    \E player_id \in KnownIds, limit \in Limits :
        \E order \in SortDescending(matches,
                        {i \in 1..Len(matches) : matches[i].player_id = player_id},
                        "timestamp") :
            /\ Free(r)
            /\ LET listed == ToList(order, limit)
               IN  req' = Step(r,
                       Finished("get_player_matches",
                           [player_id |-> player_id, limit |-> limit], << >>,
                           Response(200,
                               [i \in DOMAIN listed |-> MatchOut(matches[listed[i]])])))
            /\ overlap' = Overlap(r)
            /\ UNCHANGED <<players, customizations, matches, stamps, patches>>

----------------------------------------------------------------------------
(* Customizations *)

\* CarCustomization(**custom_data.model_dump())
CarCustomization(id, custom_data, t) ==
    [id |-> id, player_id |-> custom_data.player_id,
     car_model |-> custom_data.car_model, body_color |-> custom_data.body_color,
     decal |-> custom_data.decal, wheels |-> custom_data.wheels,
     boost_effect |-> custom_data.boost_effect,
     goal_explosion |-> custom_data.goal_explosion, updated_at |-> t]

\* CarCustomization(player_id=player_id): the model's defaults.
DefaultCarCustomization(id, player_id, t) ==
    [id |-> id, player_id |-> player_id, car_model |-> "default",
     body_color |-> "#3B82F6", decal |-> "none", wheels |-> "default",
     boost_effect |-> "blue", goal_explosion |-> "default", updated_at |-> t]

\* doc = customization.model_dump(); doc['updated_at'] = doc['updated_at'].isoformat()
CustomizationDoc(customization) == [customization EXCEPT !.updated_at = isoformat(@)]

\* A document as a handler returns it: updated_at parsed back.
CustomizationOut(doc) == [doc EXCEPT !.updated_at = fromisoformat(@)]

\* Requests about to insert a customization document.
InsertingCustomization ==
    Inserting("create_customization") + Inserting("get_customization")

\* create_customization, up to its first await: find_one by player_id, then
\* the check.
create_customization_find(r) ==
    \E player_id \in PlayerIds, body \in CustomizationCreates :
        /\ Free(r)
        /\ \/ find_one(customizations, "player_id", player_id) # << >>
           \/ Len(customizations) + InsertingCustomization < MaxCustoms
        /\ LET custom_data == [player_id |-> player_id] @@ body
               existing == find_one(customizations, "player_id", player_id)
           IN  req' = Step(r,
                   IF existing # << >>
                   THEN Finished("create_customization", custom_data, << >>,
                            Response(400, "Customization already exists for this player"))
                   ELSE Running("create_customization", "insert", custom_data, << >>))
        /\ overlap' = Overlap(r)
        /\ UNCHANGED <<players, customizations, matches, stamps, patches>>

\* create_customization, the rest: build the CarCustomization and insert its
\* document.
create_customization_insert(r) ==
    /\ req[r].op = "create_customization" /\ req[r].pc = "insert"
    /\ LET customization ==
               CarCustomization(Len(customizations) + 1, req[r].arg, stamps + 1)
       IN  /\ customizations' = Append(customizations, CustomizationDoc(customization))
           /\ req' = Step(r,
                   Finished("create_customization", req[r].arg, << >>,
                       Response(200, customization)))
    /\ stamps' = stamps + 1
    /\ UNCHANGED <<players, matches, patches, overlap>>

\* get_customization, up to its first await: find_one by player_id; a
\* document found is returned.
get_customization_find(r) ==
    \E player_id \in PlayerIds :
        /\ Free(r)
        /\ \/ find_one(customizations, "player_id", player_id) # << >>
           \/ Len(customizations) + InsertingCustomization < MaxCustoms
        /\ LET arg == [player_id |-> player_id]
               custom == find_one(customizations, "player_id", player_id)
           IN  req' = Step(r,
                   IF custom = << >>
                   THEN Running("get_customization", "insert", arg, [custom |-> custom])
                   ELSE Finished("get_customization", arg, [custom |-> custom],
                            Response(200, CustomizationOut(custom[1]))))
        /\ overlap' = Overlap(r)
        /\ UNCHANGED <<players, customizations, matches, stamps, patches>>

\* get_customization, when nothing was found: build the default
\* CarCustomization, insert its document and return it.
get_customization_insert(r) ==
    /\ req[r].op = "get_customization" /\ req[r].pc = "insert"
    /\ LET default_custom ==
               DefaultCarCustomization(Len(customizations) + 1, req[r].arg.player_id,
                                    stamps + 1)
       IN  /\ customizations' = Append(customizations, CustomizationDoc(default_custom))
           /\ req' = Step(r,
                   Finished("get_customization", req[r].arg, req[r].loc,
                       Response(200, default_custom)))
    /\ stamps' = stamps + 1
    /\ UNCHANGED <<players, matches, patches, overlap>>

\* update_customization, up to its second await: the non-null fields, the
\* check that there are some, the fresh updated_at, update_one by player_id,
\* the check that it matched.
update_customization_update(r) ==
    \E player_id \in PlayerIds, updates \in CustomizationUpdates :
        /\ Free(r)
        /\ \/ DOMAIN NonNull(updates) = {}
           \/ matched_count(customizations, "player_id", player_id) = 0
           \/ stamps - Len(customizations) < MaxStamps
        /\ LET arg == [player_id |-> player_id, updates |-> updates]
               update_data == NonNull(updates)
               stamped == update_data @@ [updated_at |-> isoformat(stamps + 1)]
               matched == matched_count(customizations, "player_id", player_id)
           IN  IF DOMAIN update_data = {}
               THEN /\ req' = Step(r,
                            Finished("update_customization", arg, << >>,
                                Response(400, "No valid fields to update")))
                    /\ UNCHANGED <<customizations, stamps>>
               ELSE /\ customizations' =
                            update_one(customizations, "player_id", player_id, stamped)
                    /\ stamps' = stamps + matched
                    /\ req' = Step(r,
                            IF matched = 0
                            THEN Finished("update_customization", arg, << >>,
                                     Response(404, "Customization not found"))
                            ELSE Running("update_customization", "find", arg, << >>))
        /\ overlap' = Overlap(r)
        /\ UNCHANGED <<players, matches, patches>>

\* update_customization, the rest: find_one by player_id; the document found
\* is returned.
update_customization_find(r) ==
    /\ req[r].op = "update_customization" /\ req[r].pc = "find"
    /\ LET updated == find_one(customizations, "player_id", req[r].arg.player_id)
       IN  req' = Step(r,
               Finished("update_customization", req[r].arg, << >>,
                   Response(200, CustomizationOut(updated[1]))))
    /\ UNCHANGED <<players, customizations, matches, stamps, patches, overlap>>

----------------------------------------------------------------------------
(* Specifications *)

Init ==
    /\ players = << >>
    /\ customizations = << >>
    /\ matches = << >>
    /\ stamps = 0
    /\ patches = 0
    /\ req = [r \in Requests |-> IdleRequest]
    /\ overlap = FALSE

\* create_player and create_match_result only.
NextMatch ==
    \E r \in Requests :
        \/ create_player_find(r)
        \/ create_player_insert(r)
        \/ create_match_result_insert(r)
        \/ create_match_result_find(r)
        \/ create_match_result_update(r)

SpecMatch == Init /\ [][NextMatch]_vars

\* create_player, create_match_result and get_player_matches.
NextLedger ==
    \E r \in Requests :
        \/ create_player_find(r)
        \/ create_player_insert(r)
        \/ create_match_result_insert(r)
        \/ create_match_result_find(r)
        \/ create_match_result_update(r)
        \/ get_player_matches(r)

SpecLedger == Init /\ [][NextLedger]_vars

\* The handlers that read or write the players collection.
NextPlayers ==
    \E r \in Requests :
        \/ create_player_find(r)
        \/ create_player_insert(r)
        \/ update_player_update(r)
        \/ update_player_find(r)
        \/ create_match_result_insert(r)
        \/ create_match_result_find(r)
        \/ create_match_result_update(r)

SpecPlayers == Init /\ [][NextPlayers]_vars

\* The handlers that read or write the customizations collection.
NextCustomizations ==
    \E r \in Requests :
        \/ create_customization_find(r)
        \/ create_customization_insert(r)
        \/ get_customization_find(r)
        \/ get_customization_insert(r)
        \/ update_customization_update(r)
        \/ update_customization_find(r)

SpecCustomizations == Init /\ [][NextCustomizations]_vars

\* Every handler.  The customization handlers touch only the customizations
\* collection and the others never touch it, so the specifications above are
\* this one seen through the collections each set of handlers uses.
Next ==
    \E r \in Requests :
        \/ create_player_find(r)
        \/ create_player_insert(r)
        \/ update_player_update(r)
        \/ update_player_find(r)
        \/ create_match_result_insert(r)
        \/ create_match_result_find(r)
        \/ create_match_result_update(r)
        \/ create_customization_find(r)
        \/ create_customization_insert(r)
        \/ get_customization_find(r)
        \/ get_customization_insert(r)
        \/ update_customization_update(r)
        \/ update_customization_find(r)
        \/ get_player(r)
        \/ get_player_by_email(r)
        \/ get_player_matches(r)
        \/ get_leaderboard(r)

Spec == Init /\ [][Next]_vars

\* wins values of the players where only get_leaderboard runs.
ListedWins == {5, 10, 50}

\* The players collection after n create_player requests with distinct
\* usernames and emails, served one after the other, and an update_player
\* that set the wins of each player: wins[i] for the i-th.
ListedPlayers(n, wins) ==
    [i \in 1..n |->
        SetFields(PlayerDoc(Player(i, [username |-> <<"player", i>>,
                                       email |-> <<"player", i, "@x">>], i)),
                  [wins |-> wins[i]])]

InitLeaderboard ==
    /\ \E n \in 0..MaxListed :
        \E wins \in [1..n -> ListedWins] : players = ListedPlayers(n, wins)
    /\ customizations = << >>
    /\ matches = << >>
    /\ stamps = 0
    /\ patches = 0
    /\ req = [r \in Requests |-> IdleRequest]
    /\ overlap = FALSE

\* get_leaderboard only, over the collections of InitLeaderboard.
NextLeaderboard == \E r \in Requests : get_leaderboard(r)

SpecLeaderboard == InitLeaderboard /\ [][NextLeaderboard]_vars

\* level and xp values of the player where the level-up loop runs step by
\* step: values update_player can write (level: Optional[int], xp:
\* Optional[int]).
LevelValues == {-2, 0, 1, 3}
XpValues == {-150, 0, 250, 1000}

\* The players collection after one create_player and an update_player that
\* set the player's level and xp.
InitLevelUp ==
    /\ \E level \in LevelValues, xp \in XpValues :
        players = <<SetFields(PlayerDoc(Player(1, [username |-> "ann", email |-> "a@x"], 1)),
                              [level |-> level, xp |-> xp])>>
    /\ customizations = << >>
    /\ matches = << >>
    /\ stamps = 0
    /\ patches = 0
    /\ req = [r \in Requests |-> IdleRequest]
    /\ overlap = FALSE

\* Some request is in the level-up loop: synchronous code, which runs to the
\* handler's next await before any other request takes a step.
Looping == \E q \in Requests : req[q].pc = "level"

\* create_match_result, its level-up loop cut at every iteration.
NextLevelUp ==
    \E r \in Requests :
        \/ ~Looping /\ create_match_result_insert(r)
        \/ ~Looping /\ create_match_result_player(r)
        \/ create_match_result_level(r)
        \/ create_match_result_rank(r)
        \/ ~Looping /\ create_match_result_update(r)

\* The steps of a request that has started.
Continue(r) ==
    \/ ~Looping /\ create_match_result_player(r)
    \/ create_match_result_level(r)
    \/ create_match_result_rank(r)
    \/ ~Looping /\ create_match_result_update(r)

\* A request that has started goes on: the database answers every call, and
\* the loop is synchronous code that runs whenever it can.
SpecLevelUp ==
    InitLevelUp /\ [][NextLevelUp]_vars /\ \A r \in Requests : WF_vars(Continue(r))

\* The documents stored in the three collections, and those that the requests
\* in flight are about to insert.
Documents ==
    Len(players) + Len(matches) + Len(customizations)
        + Inserting("create_player") + InsertingCustomization

\* A request that may insert a document starts while there is room for one.
Room == Documents < MaxDocuments

\* Request r may take a step when the requests are served one after the
\* other: it is in flight, or none is.
Turn(r) == InFlight(r) \/ \A q \in Requests : ~InFlight(q)

\* Every handler, the requests served one after the other and the three
\* collections holding MaxDocuments documents at most.
NextStore ==
    \E r \in Requests :
        \/ Turn(r) /\ Room /\ create_player_find(r)
        \/ Turn(r) /\ create_player_insert(r)
        \/ Turn(r) /\ update_player_update(r)
        \/ Turn(r) /\ update_player_find(r)
        \/ Turn(r) /\ Room /\ create_match_result_insert(r)
        \/ Turn(r) /\ create_match_result_find(r)
        \/ Turn(r) /\ create_match_result_update(r)
        \/ Turn(r) /\ Room /\ create_customization_find(r)
        \/ Turn(r) /\ create_customization_insert(r)
        \/ Turn(r) /\ Room /\ get_customization_find(r)
        \/ Turn(r) /\ get_customization_insert(r)
        \/ Turn(r) /\ update_customization_update(r)
        \/ Turn(r) /\ update_customization_find(r)
        \/ Turn(r) /\ get_player(r)
        \/ Turn(r) /\ get_player_by_email(r)
        \/ Turn(r) /\ get_player_matches(r)
        \/ Turn(r) /\ get_leaderboard(r)

SpecStore == Init /\ [][NextStore]_vars

----------------------------------------------------------------------------
(* Vocabulary of the properties *)

\* Request r starts handler op in this step.
Arrives(r, op) == ~InFlight(r) /\ req'[r].op = op /\ req'[r] # req[r]

\* Request r, running handler op, returns or raises in this step.
Completes(r, op) == InFlight(r) /\ req[r].op = op /\ req'[r].pc = "done"

\* Request r ends create_match_result in this step, having found its player.
MatchEnds(r) ==
    /\ Completes(r, "create_match_result")
    /\ "player" \in DOMAIN req'[r].loc

\* The player create_match_result read, and the stored player after the step.
PlayerRead(r) == req'[r].loc.player
PlayerAfter(r) == players'[FirstIndex(players', "id", req[r].arg.player_id)]

\* No request in flight.
Quiet == \A r \in Requests : ~InFlight(r)

\* Section 4.3, step 5 of the specification: the leveling loop, whose final xp
\* and level both become the new values.
RECURSIVE Leveling(_, _)
Leveling(xp, level) ==
    IF xp >= level * 100 THEN Leveling(xp - level * 100, level + 1)
    ELSE [xp |-> xp, level |-> level]

\* Section 4.3, step 6 of the specification: the rank thresholds, Bronze below
\* the lowest.
RankTable(wins) ==
    IF wins >= 50 THEN "Diamond"
    ELSE IF wins >= 30 THEN "Platinum"
    ELSE IF wins >= 15 THEN "Gold"
    ELSE IF wins >= 5 THEN "Silver"
    ELSE "Bronze"

----------------------------------------------------------------------------
(* Properties *)

\* C1: with requests served one after the other, every stored player has
\* 0 <= xp < level * 100.
C1_XpIsRemainder ==
    ~overlap =>
        \A i \in 1..Len(players) :
            0 <= players[i].xp /\ players[i].xp < players[i].level * 100

\* C2: a create_match_result that found its player (requests served one after
\* the other) adds 1 to the stored wins and leaves losses alone when result is
\* "win", and adds 1 to the stored losses and leaves wins alone otherwise.
C2_WinLossExclusive ==
    [][\A r \in Requests :
        (MatchEnds(r) /\ ~overlap') =>
            IF req[r].arg.result = "win"
            THEN /\ PlayerAfter(r).wins = PlayerRead(r).wins + 1
                 /\ PlayerAfter(r).losses = PlayerRead(r).losses
            ELSE /\ PlayerAfter(r).losses = PlayerRead(r).losses + 1
                 /\ PlayerAfter(r).wins = PlayerRead(r).wins]_vars

\* C3: after a create_match_result that found its player and returned
\* (requests served one after the other), the stored rank is the threshold
\* table's rank for the stored wins, whatever the rank and wins were before.
C3_RankFromTable ==
    [][\A r \in Requests :
        (MatchEnds(r) /\ req'[r].resp.status = 200 /\ ~overlap') =>
            PlayerAfter(r).rank = RankTable(PlayerAfter(r).wins)]_vars

\* C4: after a create_match_result that found its player and returned
\* (requests served one after the other), the stored level and xp are the
\* specification's leveling of the level read and the xp read plus xp_earned.
C4_LevelingFold ==
    [][\A r \in Requests :
        (MatchEnds(r) /\ req'[r].resp.status = 200 /\ ~overlap') =>
            LET spec == Leveling(PlayerRead(r).xp + req[r].arg.xp_earned,
                                 PlayerRead(r).level)
            IN  /\ PlayerAfter(r).level = spec.level
                /\ PlayerAfter(r).xp = spec.xp]_vars

\* C5: a create_match_result that found its player (requests served one after
\* the other) leaves coins at the coins read plus coins_earned and goals at
\* the goals read plus player_goals, whatever the result.
C5_CoinsAndGoals ==
    [][\A r \in Requests :
        (MatchEnds(r) /\ ~overlap') =>
            /\ PlayerAfter(r).coins = PlayerRead(r).coins + req[r].arg.coins_earned
            /\ PlayerAfter(r).goals = PlayerRead(r).goals + req[r].arg.player_goals]_vars

\* C6: no two stored players have the same email.
C6_OnePlayerPerEmail ==
    \A i, j \in 1..Len(players) :
        players[i].email = players[j].email => i = j

\* Some stored player has this email.
Registered(email) == \E i \in 1..Len(players) : players[i].email = email

\* C7: create_player with a registered email raises 400 (the Conflict) and
\* leaves the players collection as it is; with an unregistered email it goes
\* on to insert, and the insert appends exactly one document, with the
\* request's username and email and the defaults level 1, xp 0, coins 1000,
\* diamonds 50, rank Bronze, wins, losses and goals 0.
C7_CreatePlayer ==
    [][\A r \in Requests :
        /\ Arrives(r, "create_player") =>
            /\ players' = players
            /\ IF Registered(req'[r].arg.email)
               THEN /\ req'[r].pc = "done"
                    /\ req'[r].resp = Response(400, "Player with this email already exists")
               ELSE req'[r].pc = "insert"
        /\ Completes(r, "create_player") =>
            /\ req'[r].resp.status = 200
            /\ Len(players') = Len(players) + 1
            /\ SubSeq(players', 1, Len(players)) = players
            /\ LET p == players'[Len(players')]
               IN  /\ p.username = req[r].arg.username
                   /\ p.email = req[r].arg.email
                   /\ p.level = 1 /\ p.xp = 0 /\ p.coins = 1000 /\ p.diamonds = 50
                   /\ p.rank = "Bronze"
                   /\ p.wins = 0 /\ p.losses = 0 /\ p.goals = 0]_vars

\* C7's case: a player is stored and a create_player with its email was refused.
C7_Witness ==
    \E r \in Requests :
        /\ req[r].op = "create_player" /\ req[r].pc = "done"
        /\ req[r].resp.status = 400
        /\ Registered(req[r].arg.email)

\* Some stored customization has this player_id.
Customized(player_id) ==
    \E i \in 1..Len(customizations) : customizations[i].player_id = player_id

\* No two stored customizations have the same player_id.
OneCustomizationPerPlayer ==
    \A i, j \in 1..Len(customizations) :
        customizations[i].player_id = customizations[j].player_id => i = j

\* C8: no two stored customizations ever have the same player_id, and
\* create_customization for a player_id that has one raises 400 (the Conflict).
C8_OneCustomizationPerPlayer ==
    /\ []OneCustomizationPerPlayer
    /\ [][\A r \in Requests :
            (Arrives(r, "create_customization") /\ Customized(req'[r].arg.player_id)) =>
                /\ req'[r].pc = "done"
                /\ req'[r].resp.status = 400
                /\ customizations' = customizations]_vars

\* The documented default field values of a customization.
HasDefaults(c) ==
    /\ c.car_model = "default" /\ c.body_color = "#3B82F6" /\ c.decal = "none"
    /\ c.wheels = "default" /\ c.boost_effect = "blue"
    /\ c.goal_explosion = "default"

\* C9: get_customization for a player_id without a record goes on to insert,
\* and the insert appends exactly one document, with the default field values,
\* which is the record returned; for a player_id with a record it returns the
\* stored record and inserts nothing.  With requests served one after the
\* other there is one record per player_id, and no step changes the id or the
\* player_id of a stored record: every later call returns the same record.
C9_GetOrCreateIdempotent ==
    [][/\ \A r \in Requests :
            /\ Arrives(r, "get_customization") =>
                /\ customizations' = customizations
                /\ IF Customized(req'[r].arg.player_id)
                   THEN /\ req'[r].pc = "done"
                        /\ req'[r].resp.status = 200
                        /\ \E i \in 1..Len(customizations) :
                            /\ customizations[i].player_id = req'[r].arg.player_id
                            /\ req'[r].resp.body =
                                   [customizations[i] EXCEPT !.updated_at = @.iso]
                   ELSE req'[r].pc = "insert"
            /\ Completes(r, "get_customization") =>
                /\ Len(customizations') = Len(customizations) + 1
                /\ SubSeq(customizations', 1, Len(customizations)) = customizations
                /\ LET c == customizations'[Len(customizations')]
                   IN  /\ c.player_id = req[r].arg.player_id
                       /\ HasDefaults(c)
                       /\ req'[r].resp.status = 200
                       /\ req'[r].resp.body = [c EXCEPT !.updated_at = @.iso]
       /\ \A i \in 1..Len(customizations) :
            /\ i <= Len(customizations')
            /\ customizations'[i].id = customizations[i].id
            /\ customizations'[i].player_id = customizations[i].player_id
       /\ ~overlap' => OneCustomizationPerPlayer']_vars

\* C9's case: requests were served one after the other, and a
\* get_customization found the record with the default values and returned it.
C9_Witness ==
    /\ ~overlap
    /\ \E r \in Requests :
        /\ req[r].op = "get_customization" /\ req[r].pc = "done"
        /\ req[r].loc.custom # << >>
        /\ HasDefaults(req[r].resp.body)
        /\ req[r].resp.body.id = req[r].loc.custom[1].id

\* The stored matches of a player that create_match_result follows with a
\* write to the player: those whose result is "win".
WrittenMatches(player_id) ==
    {i \in 1..Len(matches) :
        matches[i].player_id = player_id /\ matches[i].result = "win"}

\* The sum of field over the matches with the indices in S.
RECURSIVE SumOf(_, _)
SumOf(S, field) ==
    IF S = {} THEN 0
    ELSE LET i == CHOOSE i \in S : TRUE
         IN  matches[i][field] + SumOf(S \ {i}, field)

\* A stored player's counters reflect every match of WrittenMatches (xp as the
\* code stores it: the sum of the xp earned).
ReflectsMatches(p) ==
    /\ p.wins = Cardinality(WrittenMatches(p.id))
    /\ p.coins = 1000 + SumOf(WrittenMatches(p.id), "coins_earned")
    /\ p.goals = SumOf(WrittenMatches(p.id), "player_goals")
    /\ p.xp = SumOf(WrittenMatches(p.id), "xp_earned")

Exists(player_id) == \E i \in 1..Len(players) : players[i].id = player_id

\* The stored matches of player_id, as a handler returns them.
LedgerOf(player_id) ==
    {[matches[i] EXCEPT !.timestamp = @.iso] :
        i \in {j \in 1..Len(matches) : matches[j].player_id = player_id}}

\* The items of a sequence.
Range(s) == {s[i] : i \in DOMAIN s}

\* C11: create_match_result for a player_id that no stored player has appends
\* its match document and leaves the players collection alone; it then finds
\* no player, returns the match (status 200) and again leaves the players
\* collection alone, the match being among the stored matches of that
\* player_id.  get_player_matches returns stored matches of the player_id
\* asked for, newest first, and all of them when there are at most limit.
C11_MatchForUnknownPlayer ==
    [][\A r \in Requests :
        /\ (Arrives(r, "create_match_result") /\ ~Exists(req'[r].arg.player_id)) =>
            /\ players' = players
            /\ Len(matches') = Len(matches) + 1
            /\ matches'[Len(matches')].player_id = req'[r].arg.player_id
        /\ (Completes(r, "create_match_result") /\ ~Exists(req[r].arg.player_id)) =>
            /\ players' = players
            /\ req'[r].resp.status = 200
            /\ req'[r].resp.body.player_id = req[r].arg.player_id
            /\ req'[r].resp.body \in LedgerOf(req[r].arg.player_id)'
        /\ Arrives(r, "get_player_matches") =>
            LET body == req'[r].resp.body
                ledger == LedgerOf(req'[r].arg.player_id)
            IN  /\ req'[r].resp.status = 200
                /\ Range(body) \subseteq ledger
                /\ Len(body) <= req'[r].arg.limit
                /\ Cardinality(ledger) <= req'[r].arg.limit => Range(body) = ledger
                /\ \A i, j \in DOMAIN body :
                    i < j => body[i].timestamp > body[j].timestamp]_vars

\* C11's case: a player is stored, and a create_match_result for a player_id
\* that no stored player has returned its match without having read a player.
C11_Witness ==
    /\ Len(players) > 0
    /\ \E r \in Requests :
        /\ req[r].op = "create_match_result" /\ req[r].pc = "done"
        /\ ~Exists(req[r].arg.player_id)
        /\ "player" \notin DOMAIN req[r].loc
        /\ req[r].resp.status = 200
        /\ req[r].resp.body \in LedgerOf(req[r].arg.player_id)

\* C12: no step changes or removes a stored match; a step appends at most
\* one match, and does so exactly when a create_match_result starts; the
\* match it appends carries the submitted player_id, result, player_goals,
\* opponent_goals, duration, xp_earned and coins_earned; the later steps of
\* create_match_result append nothing.
C12_LedgerAppendOnly ==
    [][/\ Len(matches') >= Len(matches)
       /\ SubSeq(matches', 1, Len(matches)) = matches
       /\ Len(matches') <= Len(matches) + 1
       /\ Len(matches') = Len(matches) + 1 <=>
              \E r \in Requests : Arrives(r, "create_match_result")
       /\ \A r \in Requests :
            Arrives(r, "create_match_result") =>
                LET m == matches'[Len(matches')]
                    match_data == req'[r].arg
                IN  /\ m.player_id = match_data.player_id
                    /\ m.result = match_data.result
                    /\ m.player_goals = match_data.player_goals
                    /\ m.opponent_goals = match_data.opponent_goals
                    /\ m.duration = match_data.duration
                    /\ m.xp_earned = match_data.xp_earned
                    /\ m.coins_earned = match_data.coins_earned]_vars

\* C12's case: a match of a stored player is in the ledger, a customization
\* is stored, and an update_player has since written to that player.
C12_Witness ==
    /\ Len(customizations) > 0
    /\ \E r \in Requests, i \in 1..Len(matches) :
        /\ req[r].op = "update_player" /\ req[r].pc = "done"
        /\ req[r].resp.status = 200
        /\ matches[i].player_id = req[r].arg.player_id

\* Every field of an update body is None.
AllNone(updates) == \A f \in DOMAIN updates : updates[f] = << >>

\* C13: update_player and update_customization with a body whose fields are
\* all None raise 400 "No valid fields to update" at once and write nothing,
\* whether or not the target is stored.
C13_EmptyUpdateRejected ==
    [][\A r \in Requests :
        ((Arrives(r, "update_player") \/ Arrives(r, "update_customization"))
            /\ AllNone(req'[r].arg.updates)) =>
                /\ req'[r].pc = "done"
                /\ req'[r].resp = Response(400, "No valid fields to update")
                /\ players' = players
                /\ customizations' = customizations
                /\ matches' = matches]_vars

\* C13's case: players and customizations are stored, and an update_player
\* with no non-null field, for a stored player, was refused.
C13_Witness ==
    /\ Len(customizations) > 0
    /\ \E r \in Requests :
        /\ req[r].op = "update_player" /\ req[r].pc = "done"
        /\ AllNone(req[r].arg.updates)
        /\ Exists(req[r].arg.player_id)
        /\ req[r].resp.status = 400

\* The ranks in ascending order.
RankOrder(rank) ==
    CASE rank = "Bronze" -> 1
      [] rank = "Silver" -> 2
      [] rank = "Gold" -> 3
      [] rank = "Platinum" -> 4
      [] rank = "Diamond" -> 5

\* C14: no step lowers the stored rank of a stored player.
C14_RankNeverDecreases ==
    [][\A i \in 1..Len(players) :
        RankOrder(players'[i].rank) >= RankOrder(players[i].rank)]_vars

\* C15: update_player with some non-null field, for the id of a stored
\* player, sets each supplied non-null field of that player to the supplied
\* value and leaves its other fields, the other players, the matches and the
\* customizations as they are, and its later step writes nothing; for an id
\* that no stored player has it raises 404 and writes nothing.
C15_UpdatePlayerFrame ==
    [][\A r \in Requests :
        /\ (Arrives(r, "update_player") /\ ~AllNone(req'[r].arg.updates)) =>
            LET player_id == req'[r].arg.player_id
                updates == req'[r].arg.updates
            IN  /\ matches' = matches
                /\ customizations' = customizations
                /\ Len(players') = Len(players)
                /\ IF Exists(player_id)
                   THEN \A i \in 1..Len(players) :
                            IF players[i].id = player_id
                            THEN /\ DOMAIN players'[i] = DOMAIN players[i]
                                 /\ \A f \in DOMAIN players[i] :
                                        players'[i][f] =
                                            IF f \in DOMAIN updates /\ updates[f] # << >>
                                            THEN updates[f][1]
                                            ELSE players[i][f]
                            ELSE players'[i] = players[i]
                   ELSE /\ players' = players
                        /\ req'[r].pc = "done"
                        /\ req'[r].resp = Response(404, "Player not found")
        /\ Completes(r, "update_player") =>
            /\ players' = players
            /\ matches' = matches
            /\ customizations' = customizations]_vars

\* C15's case: matches and customizations are stored, and an update_player
\* for a stored player has written and returned.
C15_Witness ==
    /\ Len(matches) > 0
    /\ Len(customizations) > 0
    /\ \E r \in Requests :
        /\ req[r].op = "update_player" /\ req[r].pc = "done"
        /\ req[r].resp.status = 200
        /\ Exists(req[r].arg.player_id)

\* The stored players with more wins than w, and with at least w.
Above(w) == {i \in 1..Len(players) : players[i].wins > w}
AtLeast(w) == {i \in 1..Len(players) : players[i].wins >= w}

\* C16: get_leaderboard(limit) returns limit entries, or every player if
\* there are fewer; each entry is the username, wins, goals, rank and level of
\* a stored player; each entry has at least the wins of the next; the k-th
\* entry has the k-th largest wins of the collection, so that no player left
\* out has more wins than one returned; for stored wins 10, 50, 5 and limit 3
\* the entries have wins 50, 10, 5.
C16_Leaderboard ==
    [][\A r \in Requests :
        Arrives(r, "get_leaderboard") =>
            LET body == req'[r].resp.body
                limit == req'[r].arg.limit
            IN  /\ req'[r].resp.status = 200
                /\ Len(body) <= limit
                /\ Len(body) = IF limit < Len(players) THEN limit ELSE Len(players)
                /\ \A k \in DOMAIN body :
                    \E i \in 1..Len(players) :
                        body[k] = [username |-> players[i].username,
                                   wins |-> players[i].wins,
                                   goals |-> players[i].goals,
                                   rank |-> players[i].rank,
                                   level |-> players[i].level]
                /\ \A j, k \in DOMAIN body : j < k => body[j].wins >= body[k].wins
                /\ \A k \in DOMAIN body :
                    /\ Cardinality(Above(body[k].wins)) < k
                    /\ k <= Cardinality(AtLeast(body[k].wins))
                /\ ([i \in 1..Len(players) |-> players[i].wins] = <<10, 50, 5>>
                        /\ limit = 3) =>
                       [k \in DOMAIN body |-> body[k].wins] = <<50, 10, 5>>]_vars

\* C16's case: the stored wins are 10, 50, 5 and get_leaderboard(3) has
\* returned three entries, the first with 50 wins.
C16_Witness ==
    /\ [i \in 1..Len(players) |-> players[i].wins] = <<10, 50, 5>>
    /\ \E r \in Requests :
        /\ req[r].op = "get_leaderboard" /\ req[r].pc = "done"
        /\ req[r].arg.limit = 3
        /\ Len(req[r].resp.body) = 3
        /\ req[r].resp.body[1].wins = 50

\* Request r is in the level-up loop.
InLoop(r) == req[r].op = "create_match_result" /\ req[r].pc = "level"

\* The player request r read has level >= 1 and xp >= 0, and the match has
\* xp_earned >= 0.
LevelUpInputOk(r) ==
    /\ req[r].loc.player.level >= 1
    /\ req[r].loc.player.xp >= 0
    /\ req[r].arg.xp_earned >= 0

\* The level-up loop cut at its iterations leaves the loop with the new_level
\* that create_match_result_find computes in one step.
LevelUpAgrees ==
    [][\A r \in Requests :
        (InLoop(r) /\ req'[r].pc \notin {"level", "idle"}) =>
            req[r].loc.new_level =
                LevelUpdates(req[r].loc.updates, req[r].loc.player).level]_vars

\* C17: for a player read with level >= 1 and xp >= 0 and a match with
\* xp_earned >= 0, every iteration of the level-up loop lowers new_xp by a
\* positive amount and leaves it non-negative, and the loop is left.
C17_LevelLoopTerminates ==
    /\ [][\A r \in Requests :
            (InLoop(r) /\ LevelUpInputOk(r) /\ req'[r].pc = "level"
                /\ req'[r] # req[r]) =>
                    /\ req'[r].loc.new_xp < req[r].loc.new_xp
                    /\ req'[r].loc.new_xp >= 0
                    /\ req[r].loc.new_level >= 1]_vars
    /\ \A r \in Requests : (InLoop(r) /\ LevelUpInputOk(r)) ~> ~InLoop(r)

\* C17's case: a request whose player had level >= 1 and xp >= 0 is in the
\* loop and has been through an iteration.
C17_Witness ==
    \E r \in Requests :
        /\ InLoop(r) /\ LevelUpInputOk(r)
        /\ req[r].loc.new_level > req[r].loc.player.level
        /\ req[r].loc.new_xp < req[r].loc.updates.xp

\* C18: every create_match_result that has started ends, whatever level and
\* xp its player has.
C18_RecordMatchTerminates ==
    \A r \in Requests :
        (req[r].op = "create_match_result" /\ InFlight(r)) ~> ~InFlight(r)

\* C18's case: a create_match_result has ended whose player had a level that
\* is not positive, and the loop has raised the level.
C18_Witness ==
    \E r \in Requests, i \in 1..Len(players) :
        /\ req[r].op = "create_match_result" /\ req[r].pc = "done"
        /\ req[r].resp.status = 200
        /\ "updates" \in DOMAIN req[r].loc
        /\ req[r].loc.player.level <= 0
        /\ players[i].id = req[r].arg.player_id
        /\ players[i].level > req[r].loc.player.level

\* The stored matches of player_id.
MatchesOf(player_id) == {i \in 1..Len(matches) : matches[i].player_id = player_id}

\* C19: with create_player and create_match_result only, the requests served
\* one after the other, once they have all ended every stored player's wins
\* plus losses is the number of stored matches of the player, and wins is the
\* number of those whose result is "win".
C19_CountersMatchLedger ==
    (~overlap /\ Quiet) =>
        \A i \in 1..Len(players) :
            /\ players[i].wins + players[i].losses =
                   Cardinality(MatchesOf(players[i].id))
            /\ players[i].wins =
                   Cardinality({j \in MatchesOf(players[i].id) :
                                   matches[j].result = "win"})

====
